---------------------------- MODULE Spec2Model ----------------------------
(***************************************************************************)
(* Sale transaction engine of the electronics-store POS backend.           *)
(*                                                                         *)
(* The Express handlers of 02_BACKEND_SERVER.js run concurrently; every    *)
(* `await supabase...` is one round trip to the database, so one action    *)
(* of the model is one database statement together with the triggers of    *)
(* 01_DATABASE_SCHEMA.sql that fire inside it, plus the synchronous        *)
(* JavaScript that runs up to the next await.                              *)
(*                                                                         *)
(* Money.  Columns are DECIMAL(x,2): stored amounts are integers in cents. *)
(* The handler computes with unrounded numbers; they are kept here in      *)
(* units of 1/1000 cent (Scale), which represents subtotal*pct/100 and     *)
(* (subtotal-discount)*0.1 exactly for prices given in whole cents.  The   *)
(* database rounds a value to the column scale half away from zero.        *)
(***************************************************************************)
EXTENDS Integers, Sequences, FiniteSets

(***************************************************************************)
(* Bounds of the model                                                     *)
(***************************************************************************)
\* transaction / receipt numbers are drawn from 0 .. MaxRand-1
MaxRand == 2
\* number of database writes that may fail for an infrastructure reason
MaxFaults == 1
\* instants of the clock: instant t lies on day (t + 1) \div 2 and, when t is
\* even, in the last second of that day
MaxTime == 3

\* largest quantity of a cart entry
MaxQuantity == 3

\* largest number of users rows
MaxUsers == 3
\* largest number of audit_logs rows the user routes write
MaxAudit == 2

(***************************************************************************)
(* Program constants                                                       *)
(***************************************************************************)
Scale == 1000
TaxRateTenths == 1
EligiblePurchaseCount == 10
EligibleTotalPurchases == 100000
EligibleDiscountPercentage == 5
\* .slice(0, 5) of the top products
TopProductsLimit == 5

NULL == "NULL"

Products == {"p1", "p2"}
Customers == {"c1", "c2"}
Users == {"cashier1", "cashier2", "admin1"}
SaleProcs == {"s1", "s2"}
CancelProcs == {"k1", "k2"}
AdjustProcs == {"a1"}
UpdateProcs == {"u1"}
ReportProcs == {"r1", "r2"}

\* users.role
Role(u) == IF u = "admin1" THEN "admin" ELSE "cashier"

\* the authenticated user of each cashier session (req.user.id)
ProcUser(s) == IF s = "s1" THEN "cashier1" ELSE "cashier2"

Item(p, q, price) == [product_id |-> p, quantity |-> q, unit_price |-> price]

\* request bodies of POST /api/transactions sent by the concurrent sessions
\* (prices in cents).  A body may leave payment_method out: the handler
\* does not look at it and the column is nullable, its CHECK passing on NULL
SaleRequests ==
  { [customer_id |-> "c1", items |-> <<Item("p1", 1, 1000), Item("p2", 1, 500)>>,
       payment_method |-> "card"],
    [customer_id |-> "c1", items |-> <<Item("p2", 1, 500)>>,
       payment_method |-> "cash"],
    [customer_id |-> "c2", items |-> <<Item("p1", 1, 1249)>>,
       payment_method |-> "check"],
    [customer_id |-> NULL, items |-> <<Item("p2", 3, 500)>>,
       payment_method |-> "cash"],
    [customer_id |-> NULL, items |-> <<Item("p2", 1, 500)>>,
       payment_method |-> NULL] }

\* request bodies sent when a single session is at work
Carts ==
  { <<Item("p1", 1, 199999), Item("p2", 2, 2999)>>,
    <<Item("p1", 1, 1000), Item("p2", 1, 500)>>,
    <<Item("p1", 1, 1249)>>,
    <<Item("p2", 2, 2999)>>,
    <<Item("p2", 1, 150)>>,
    <<Item("p2", 1, 500)>>,
    <<Item("p2", 3, 500)>>,
    <<Item("p1", 1, 1000), Item("p2", 3, 500)>>,
    <<Item("p2", -1, 500)>>,
    << >> }

ExampleRequests ==
  { [customer_id |-> c, items |-> cart, payment_method |-> "cash"] :
      c \in Customers \cup {NULL}, cart \in Carts }

\* the sessions that send a request in one run: the handlers that are
\* in flight together
Scenarios ==
  { {"s1"}, {"s1", "s2"}, {"s1", "k1"}, {"s1", "a1"}, {"s1", "k1", "a1"},
    {"s1", "k1", "k2"}, {"s1", "u1"},
    {"s1", "r1", "r2"}, {"s1", "k1", "r1"} }

NoRequest == [customer_id |-> NULL, items |-> << >>, payment_method |-> "cash"]

\* quantity_change values of POST /api/inventory/adjust
AdjustDeltas == {-2, 1}

(***************************************************************************)
(* Initial database content                                                *)
(***************************************************************************)
InitStock == [p \in Products |-> IF p = "p1" THEN 1 ELSE 2]

\* products.price as the catalog holds it at the start
InitPrice == [p \in Products |-> IF p = "p1" THEN 1000 ELSE 500]

InitCustomers ==
  [c \in Customers |->
     IF c = "c1"
       THEN [total_purchases |-> 50000, purchase_count |-> 9,
             is_eligible_for_discount |-> FALSE, discount_percentage |-> 0]
       ELSE [total_purchases |-> 250000, purchase_count |-> 12,
             is_eligible_for_discount |-> TRUE, discount_percentage |-> 5]]

(***************************************************************************)
(* Pure computations                                                       *)
(***************************************************************************)
\* ToDecimal2 that cuts the digits beyond the second decimal off
ToDecimal2Truncating(u) ==
  IF u >= 0 THEN u \div Scale ELSE -((-u) \div Scale)

\* numeric -> DECIMAL(x,2): rounds half away from zero; u in 1/Scale cents
ToDecimal2(u) ==
  IF u >= 0 THEN (2 * u + Scale) \div (2 * Scale)
            ELSE -((2 * (-u) + Scale) \div (2 * Scale))

RECURSIVE SumLineTotals(_)
\* for (const item of items) subtotal += item.quantity * item.unit_price
SumLineTotals(items) ==
  IF items = << >> THEN 0
  ELSE Head(items).quantity * Head(items).unit_price * Scale
         + SumLineTotals(Tail(items))

\* DiscountOf with eligibility taken from the counters as they will be once
\* the sale itself is counted
DiscountOfAfterAccrual(subtotal, data) ==
  IF \E d \in data : \/ d.is_eligible_for_discount
                      \/ d.purchase_count + 1 >= EligiblePurchaseCount
    THEN (subtotal * EligibleDiscountPercentage) \div 100
    ELSE 0

\* data: the set holding the customer row that was read, empty when none
DiscountOf(subtotal, data) ==
  IF \E d \in data : d.is_eligible_for_discount
    THEN (subtotal * (CHOOSE d \in data : TRUE).discount_percentage) \div 100
    ELSE 0

TaxOf(subtotal, discount) == ((subtotal - discount) * TaxRateTenths) \div 10

TotalOf(subtotal, discount, tax) == subtotal - discount + tax


(***************************************************************************)
(* Triggers of the schema                                                  *)
(***************************************************************************)
\* body of check_customer_eligibility(): the NEW row it returns
check_customer_eligibility(new) ==
  IF new.purchase_count >= EligiblePurchaseCount
       \/ new.total_purchases >= EligibleTotalPurchases
    THEN [new EXCEPT !.is_eligible_for_discount = TRUE,
                     !.discount_percentage = EligibleDiscountPercentage]
    ELSE new

\* customer_eligibility_trigger is declared AFTER UPDATE ... FOR EACH ROW:
\* the row is already written when it fires, and PostgreSQL ignores the
\* value a row-level AFTER trigger returns, so the stored row stays `new`.
customer_eligibility_trigger(new) ==
  LET returned == check_customer_eligibility(new) IN new

\* update_customer_totals that adds the subtotal of the sale in place of
\* its total
update_customer_totalsBySubtotal(cust, row) ==
  IF row.customer_id # NULL /\ row.status = "completed"
    THEN [cust EXCEPT ![row.customer_id] =
            customer_eligibility_trigger(
              [@ EXCEPT !.total_purchases = @ + row.subtotal,
                        !.purchase_count = @ + 1])]
    ELSE cust

\* update_customer_totals whose UPDATE has no WHERE clause: every customers
\* row is counted up
update_customer_totalsEveryRow(cust, row) ==
  IF row.customer_id # NULL /\ row.status = "completed"
    THEN [c \in DOMAIN cust |->
            customer_eligibility_trigger(
              [cust[c] EXCEPT !.total_purchases = @ + row.total_amount,
                              !.purchase_count = @ + 1])]
    ELSE cust

\* update_customer_totals(), fired AFTER INSERT ON transactions
\* WHEN (NEW.customer_id IS NOT NULL AND NEW.status = 'completed')
update_customer_totals(cust, row) ==
  IF row.customer_id # NULL /\ row.status = "completed"
    THEN [cust EXCEPT ![row.customer_id] =
            customer_eligibility_trigger(
              [@ EXCEPT !.total_purchases = @ + row.total_amount,
                        !.purchase_count = @ + 1])]
    ELSE cust

\* update_product_quantity(), fired AFTER INSERT ON transaction_items:
\* the new value of products.quantity_in_stock
update_product_quantity(st, row) ==
  [st EXCEPT ![row.product_id] = @ - row.quantity]

\* the inventory_logs row the same trigger inserts
PurchaseLog(row, cashier) ==
  [product_id |-> row.product_id, action |-> "purchase",
   quantity_change |-> -row.quantity, previous_quantity |-> NULL,
   new_quantity |-> NULL, created_by |-> cashier]

(***************************************************************************)
(* State                                                                   *)
(***************************************************************************)
VARIABLES
  stock,              \* products.quantity_in_stock, by product id
  customers,          \* customers rows, by customer id
  transactions,       \* transactions rows; the id of a row is its index
  transaction_items,  \* transaction_items rows, in insertion order
  receipts,           \* receipts rows, in insertion order
  inventory_logs,     \* inventory_logs rows, in insertion order
  audit_logs,         \* audit_logs rows, in insertion order
  price,              \* products.price, by product id
  daily_reports,      \* daily_reports rows, in insertion order
  sale,               \* POST /api/transactions: locals of each request
  cancel,             \* PUT /api/transactions/:id/cancel: locals
  adjust,             \* POST /api/inventory/adjust: locals
  update,             \* PUT /api/products/:id: locals
  report,             \* POST /api/reports/daily: locals
  now,                \* the clock (CURRENT_TIMESTAMP), an instant
  faults,             \* database writes that failed so far
  scenario,           \* the sessions of this run
  cart,               \* the cart of the cashier screen (useState, line 244)
  lastCall,           \* the cart function called last, with its arguments
  users,              \* users rows; the id of a row is its index
  grantedBy           \* per users row: whose request wrote its role

vars == <<stock, customers, transactions, transaction_items, receipts,
          inventory_logs, audit_logs, price, daily_reports, sale, cancel,
          adjust, update, report, now, faults, scenario, cart, lastCall,
          users, grantedBy>>

db == <<stock, customers, transactions, transaction_items, receipts,
        inventory_logs, audit_logs, price, daily_reports>>

\* the state of the cashier screen
screen == <<cart, lastCall>>

\* the users table and the record of who wrote each role
auth == <<users, grantedBy>>

others == <<update, report, now, screen, auth>>

\* the accounts the installation starts with: the admin of the setup and a
\* cashier
InitUsers ==
  << [email |-> "admin@soko", role |-> "admin", is_active |-> TRUE],
     [email |-> "cashier@soko", role |-> "cashier", is_active |-> TRUE] >>

\* no cart function was called yet
NoCall == [op |-> "", product_id |-> "", quantity |-> 0]

SaleIdle ==
  [pc |-> "idle", req |-> NoRequest, i |-> 0, subtotal |-> 0, discount |-> 0,
   tax |-> 0, totalAmount |-> 0, customerData |-> {}, transaction |-> 0,
   status |-> 0, error |-> ""]

CancelIdle ==
  [pc |-> "idle", id |-> 0, user |-> "cashier1", items |-> << >>, i |-> 0,
   status |-> 0, error |-> ""]

AdjustIdle ==
  [pc |-> "idle", product_id |-> "p1", quantity_change |-> 0,
   previous_quantity |-> 0, newQuantity |-> 0, status |-> 0, error |-> ""]

UpdateIdle ==
  [pc |-> "idle", id |-> "p1", user |-> "admin1", status |-> 0, error |-> ""]

ReportIdle ==
  [pc |-> "idle", dateStr |-> 0, user |-> "admin1", data |-> {},
   items |-> {}, totalSales |-> 0, totalTransactions |-> 0, totalDiscount |-> 0,
   totalTax |-> 0, paymentMethods |-> [cash |-> 0, card |-> 0, check |-> 0],
   topProducts |-> << >>, status |-> 0, error |-> ""]

Init ==
  /\ stock = InitStock
  /\ customers = InitCustomers
  /\ transactions = << >>
  /\ transaction_items = << >>
  /\ receipts = << >>
  /\ inventory_logs = << >>
  /\ audit_logs = << >>
  /\ price = InitPrice
  /\ daily_reports = << >>
  /\ now = 1
  /\ scenario \in Scenarios
  /\ sale = [s \in SaleProcs |-> SaleIdle]
  /\ cancel = [k \in CancelProcs |-> CancelIdle]
  /\ adjust = [a \in AdjustProcs |-> AdjustIdle]
  /\ update = [u \in UpdateProcs |-> UpdateIdle]
  /\ report = [r \in ReportProcs |-> ReportIdle]
  /\ faults = 0
  /\ cart = << >>
  /\ lastCall = NoCall
  /\ users = InitUsers
  /\ grantedBy = [i \in DOMAIN InitUsers |-> "seed"]

\* outcome of one database write: TRUE when the statement is executed,
\* FALSE when it fails for a reason outside the program (at most MaxFaults)
WriteOutcomes == IF faults < MaxFaults THEN {TRUE, FALSE} ELSE {TRUE}

Fault(ok) == faults' = IF ok THEN faults ELSE faults + 1

\* Math.floor(Math.random() * 10000), scaled down to MaxRand values
RandomNumbers == 0 .. (MaxRand - 1)


(***************************************************************************)
(* POST /api/transactions                                                  *)
(***************************************************************************)
\* lines 518-534 once the customer row (or none) is known: discount, tax,
\* totalAmount; the handler then issues the insert of the transaction
Totals(l, data) ==
  LET discount == DiscountOf(l.subtotal, data)
      tax == TaxOf(l.subtotal, discount)
  IN [l EXCEPT !.customerData = data, !.discount = discount, !.tax = tax,
               !.totalAmount = TotalOf(l.subtotal, discount, tax),
               !.pc = "insert"]

\* lines 508-520 after the stock loop: subtotal, then either the customer
\* query is issued or the totals are computed at once
AfterVerify(l) ==
  LET withSubtotal == [l EXCEPT !.subtotal = SumLineTotals(l.req.items)]
  IN IF l.req.customer_id # NULL
       THEN [withSubtotal EXCEPT !.pc = "customer"]
       ELSE Totals(withSubtotal, {})

\* VerifyStock with the test "is the product out of stock" in place of
\* "is the stock below the quantity"
VerifyStockOutOfStockOnly(l, st) ==
  LET item == l.req.items[l.i]
  IN IF item.product_id \notin DOMAIN st \/ st[item.product_id] <= 0
       THEN [l EXCEPT !.pc = "done", !.status = 400,
                      !.error = "Insufficient stock"]
       ELSE IF l.i < Len(l.req.items)
              THEN [l EXCEPT !.pc = "verify", !.i = l.i + 1]
              ELSE AfterVerify(l)

\* VerifyStock that queries the stock again, in place of refusing, until
\* it covers the quantity
VerifyStockWaiting(l, st) ==
  LET item == l.req.items[l.i]
  IN IF item.product_id \notin DOMAIN st \/ st[item.product_id] < item.quantity
       THEN [l EXCEPT !.pc = "verify"]
       ELSE IF l.i < Len(l.req.items)
              THEN [l EXCEPT !.pc = "verify", !.i = l.i + 1]
              ELSE AfterVerify(l)

\* one round of the loop of lines 494-506 against the stock read now
VerifyStock(l, st) ==
  LET item == l.req.items[l.i]
  IN IF item.product_id \notin DOMAIN st \/ st[item.product_id] < item.quantity
       THEN [l EXCEPT !.pc = "done", !.status = 400,
                      !.error = "Insufficient stock"]
       ELSE IF l.i < Len(l.req.items)
              THEN [l EXCEPT !.pc = "verify", !.i = l.i + 1]
              ELSE AfterVerify(l)

\* the request arrives; an empty item list is rejected (lines 489-491),
\* otherwise the first stock query runs
SaleStart(s, requests) ==
  /\ s \in scenario
  /\ sale[s].pc = "idle"
  /\ \E r \in requests :
       sale' = [sale EXCEPT ![s] =
                  IF Len(r.items) = 0
                    THEN [@ EXCEPT !.req = r, !.pc = "done", !.status = 400,
                                   !.error = "Transaction must have items"]
                    ELSE VerifyStock([@ EXCEPT !.req = r, !.i = 1], stock)]
  /\ UNCHANGED <<db, cancel, adjust, faults, scenario, others>>

\* the stock query of a later item
SaleVerify(s) ==
  /\ sale[s].pc = "verify"
  /\ sale' = [sale EXCEPT ![s] = VerifyStock(@, stock)]
  /\ UNCHANGED <<db, cancel, adjust, faults, scenario, others>>

\* lines 521-531: the customer row is read
SaleSelectCustomer(s) ==
  /\ sale[s].pc = "customer"
  /\ sale' = [sale EXCEPT ![s] =
                Totals(@, IF @.req.customer_id \in DOMAIN customers
                            THEN {customers[@.req.customer_id]} ELSE {})]
  /\ UNCHANGED <<db, cancel, adjust, faults, scenario, others>>

\* TransactionRow with status 'pending' in place of 'completed'
TransactionRowPending(l, number, cashier) ==
  [transaction_number |-> number,
   customer_id |-> l.req.customer_id,
   cashier_id |-> cashier,
   subtotal |-> ToDecimal2(l.subtotal),
   discount_amount |-> ToDecimal2(l.discount),
   tax |-> ToDecimal2(l.tax),
   total_amount |-> ToDecimal2(l.totalAmount),
   payment_method |-> l.req.payment_method,
   status |-> "pending",
   created_at |-> now]

\* the row of lines 541-553 as the table stores it; created_at is
\* DEFAULT CURRENT_TIMESTAMP (schema line 114)
TransactionRow(l, number, cashier) ==
  [transaction_number |-> number,
   customer_id |-> l.req.customer_id,
   cashier_id |-> cashier,
   subtotal |-> ToDecimal2(l.subtotal),
   discount_amount |-> ToDecimal2(l.discount),
   tax |-> ToDecimal2(l.tax),
   total_amount |-> ToDecimal2(l.totalAmount),
   payment_method |-> l.req.payment_method,
   status |-> "completed",
   created_at |-> now]

\* lines 536-558: insert into transactions; transaction_number is UNIQUE
\* (schema line 105): a number already stored makes the insert fail with
\* "duplicate key".
\* update_customer_totals_trigger fires inside the insert.  Any error is
\* thrown and answered with 500 and its message.
SaleInsertTransaction(s) ==
  /\ sale[s].pc = "insert"
  /\ \E number \in RandomNumbers, ok \in WriteOutcomes :
       LET row == TransactionRow(sale[s], number, ProcUser(s))
           duplicate == \E j \in DOMAIN transactions :
                          transactions[j].transaction_number = number
           txnError == ~ok \/ duplicate
       IN /\ Fault(ok)
          /\ IF txnError
               THEN /\ sale' = [sale EXCEPT ![s].pc = "done", ![s].status = 500,
                                   ![s].error = IF ok THEN "duplicate key"
                                                      ELSE "txnError"]
                    /\ UNCHANGED <<transactions, customers>>
               ELSE /\ transactions' = Append(transactions, row)
                    /\ customers' = update_customer_totals(customers, row)
                    /\ sale' = [sale EXCEPT ![s].pc = "items", ![s].i = 1,
                                   ![s].transaction = Len(transactions) + 1]
  /\ UNCHANGED <<stock, transaction_items, receipts, inventory_logs,
                 audit_logs, cancel, adjust,
                 scenario, price, daily_reports, others>>

\* ItemRow that takes the unit price from the catalog as it is now
ItemRowAtCatalogPrice(l) ==
  LET item == l.req.items[l.i]
  IN [transaction_id |-> l.transaction, product_id |-> item.product_id,
      quantity |-> item.quantity, unit_price |-> price[item.product_id],
      line_total |-> item.quantity * price[item.product_id]]

\* the row of lines 565-571
ItemRow(l) ==
  LET item == l.req.items[l.i]
  IN [transaction_id |-> l.transaction, product_id |-> item.product_id,
      quantity |-> item.quantity, unit_price |-> item.unit_price,
      line_total |-> item.quantity * item.unit_price]

\* lines 560-573: one insert into transaction_items; its result is not
\* looked at.  update_product_quantity_trigger fires inside the insert.
SaleInsertItem(s) ==
  /\ sale[s].pc = "items"
  /\ \E ok \in WriteOutcomes :
       LET row == ItemRow(sale[s])
       IN /\ Fault(ok)
          /\ IF ok
               THEN /\ transaction_items' = Append(transaction_items, row)
                    /\ stock' = update_product_quantity(stock, row)
                    /\ inventory_logs' =
                         Append(inventory_logs,
                                PurchaseLog(row, transactions[row.transaction_id].cashier_id))
               ELSE UNCHANGED <<transaction_items, stock, inventory_logs>>
  /\ sale' = IF sale[s].i < Len(sale[s].req.items)
               THEN [sale EXCEPT ![s].i = @ + 1]
               ELSE [sale EXCEPT ![s].pc = "receipt"]
  /\ UNCHANGED <<customers, transactions, receipts, audit_logs, cancel,
                 adjust, scenario, price, daily_reports, others>>

\* lines 575-614: insert into receipts (receipt_number is UNIQUE); its
\* result is not looked at, and 201 is answered
SaleInsertReceipt(s) ==
  /\ sale[s].pc = "receipt"
  /\ \E number \in RandomNumbers, ok \in WriteOutcomes :
       /\ Fault(ok)
       /\ receipts' =
            IF ok /\ \A j \in DOMAIN receipts : receipts[j].receipt_number # number
              THEN Append(receipts, [transaction_id |-> sale[s].transaction,
                                     receipt_number |-> number])
              ELSE receipts
  /\ sale' = [sale EXCEPT ![s].pc = "done", ![s].status = 201]
  /\ UNCHANGED <<stock, customers, transactions, transaction_items,
                 inventory_logs, audit_logs, cancel, adjust,
                 scenario, price, daily_reports, others>>


(***************************************************************************)
(* PUT /api/transactions/:id/cancel                                        *)
(***************************************************************************)
\* ids a request may carry: every stored transaction and one unknown id
CancelIds == 1 .. (Len(transactions) + 1)

\* Unauthorized that lets every cashier through, owner or not
UnauthorizedNoOwnerTest(transaction, u) ==
  Role(u) # "cashier" /\ Role(u) # "admin"

\* line 654: the requester is neither the cashier of the transaction nor
\* an admin
Unauthorized(transaction, u) ==
  transaction.cashier_id # u /\ Role(u) # "admin"

\* lines 648-656: the transaction is read.  For an unknown id `transaction`
\* is null and reading transaction.cashier_id throws, which the catch of
\* lines 694-696 answers with 500.
CancelSelect(k) ==
  /\ k \in scenario
  /\ cancel[k].pc = "idle"
  /\ \E id \in CancelIds, u \in Users :
       cancel' = [cancel EXCEPT ![k] =
         IF id \notin DOMAIN transactions
           THEN [@ EXCEPT !.id = id, !.user = u, !.pc = "done",
                          !.status = 500, !.error = "TypeError"]
           ELSE IF Unauthorized(transactions[id], u)
                  THEN [@ EXCEPT !.id = id, !.user = u, !.pc = "done",
                                 !.status = 403, !.error = "Unauthorized"]
                  ELSE [@ EXCEPT !.id = id, !.user = u, !.pc = "items"]]
  /\ UNCHANGED <<db, sale, adjust, faults, scenario, others>>

\* lines 659-662: the line items of the transaction are read
CancelSelectItems(k) ==
  /\ cancel[k].pc = "items"
  /\ LET items == SelectSeq(transaction_items,
                            LAMBDA r : r.transaction_id = cancel[k].id)
     IN cancel' = [cancel EXCEPT ![k].items = items, ![k].i = 1,
                     ![k].pc = IF items = << >> THEN "update" ELSE "restock"]
  /\ UNCHANGED <<db, sale, adjust, faults, scenario, others>>

\* ReturnStock as an update that is carried out and, naming no row, raises
\* the stock of every product by the quantity of the item
ReturnStockAllRows(st, item) == [p \in DOMAIN st |-> st[p] + item.quantity]

\* lines 664-673: products.update({quantity_in_stock: supabase.rpc(...)}).
\* The value is the request builder that rpc() returns, never awaited, so
\* no increment_stock call is sent (the schema defines no such function);
\* the update carries an object for an INTEGER column and names no row, the
\* database rejects it, and the rejection is not looked at.
ReturnStock(st, item) == st

CancelReturnStock(k) ==
  /\ cancel[k].pc = "restock"
  /\ stock' = ReturnStock(stock, cancel[k].items[cancel[k].i])
  /\ cancel' = IF cancel[k].i < Len(cancel[k].items)
                 THEN [cancel EXCEPT ![k].i = @ + 1]
                 ELSE [cancel EXCEPT ![k].pc = "update"]
  /\ UNCHANGED <<customers, transactions, transaction_items, receipts,
                 inventory_logs, audit_logs, sale, adjust, faults,
                 scenario, price, daily_reports, others>>

\* CancelledRow that also clears the amounts of the sale
CancelledRowVoided(row) ==
  [row EXCEPT !.status = "cancelled", !.discount_amount = 0, !.tax = 0,
              !.total_amount = 0]

\* line 677: update({ status: 'cancelled', updated_at }) on one row
CancelledRow(row) == [row EXCEPT !.status = "cancelled"]

\* lines 675-682: the status is set, whatever it was; an error is thrown
CancelUpdateStatus(k) ==
  /\ cancel[k].pc = "update"
  /\ \E ok \in WriteOutcomes :
       /\ Fault(ok)
       /\ IF ok
            THEN /\ transactions' = [transactions EXCEPT
                                       ![cancel[k].id] = CancelledRow(@)]
                 /\ cancel' = [cancel EXCEPT ![k].pc = "audit"]
            ELSE /\ UNCHANGED transactions
                 /\ cancel' = [cancel EXCEPT ![k].pc = "done", ![k].status = 500,
                                 ![k].error = "updateError"]
  /\ UNCHANGED <<stock, customers, transaction_items, receipts,
                 inventory_logs, audit_logs, sale, adjust,
                 scenario, price, daily_reports, others>>

\* lines 684-693: the audit row is inserted, its result is not looked at,
\* and the updated transaction is answered
CancelAudit(k) ==
  /\ cancel[k].pc = "audit"
  /\ \E ok \in WriteOutcomes :
       /\ Fault(ok)
       /\ audit_logs' =
            IF ok THEN Append(audit_logs,
                              [user_id |-> cancel[k].user,
                               action |-> "CANCEL_TRANSACTION",
                               entity_id |-> cancel[k].id])
                  ELSE audit_logs
  /\ cancel' = [cancel EXCEPT ![k].pc = "done", ![k].status = 200]
  /\ UNCHANGED <<stock, customers, transactions, transaction_items, receipts,
                 inventory_logs, sale, adjust,
                 scenario, price, daily_reports, others>>

(***************************************************************************)
(* POST /api/inventory/adjust                                              *)
(***************************************************************************)
\* lines 897-903: the stock is read and newQuantity computed from it
AdjustSelect(a) ==
  /\ a \in scenario
  /\ adjust[a].pc = "idle"
  /\ \E p \in Products, d \in AdjustDeltas :
       adjust' = [adjust EXCEPT ![a] =
                    [@ EXCEPT !.product_id = p, !.quantity_change = d,
                              !.previous_quantity = stock[p],
                              !.newQuantity = stock[p] + d,
                              !.pc = "update"]]
  /\ UNCHANGED <<db, sale, cancel, faults, scenario, others>>

\* lines 905-908: the value computed from the earlier read is written; the
\* result of the update is not looked at
AdjustUpdate(a) ==
  /\ adjust[a].pc = "update"
  /\ \E ok \in WriteOutcomes :
       /\ Fault(ok)
       /\ stock' = IF ok THEN [stock EXCEPT ![adjust[a].product_id] =
                                 adjust[a].newQuantity]
                         ELSE stock
  /\ adjust' = [adjust EXCEPT ![a].pc = "log"]
  /\ UNCHANGED <<customers, transactions, transaction_items, receipts,
                 inventory_logs, audit_logs, sale, cancel,
                 scenario, price, daily_reports, others>>

\* lines 910-927: the inventory_logs row is inserted; an error is thrown
AdjustLog(a) ==
  /\ adjust[a].pc = "log"
  /\ \E ok \in WriteOutcomes :
       /\ Fault(ok)
       /\ IF ok
            THEN /\ inventory_logs' =
                      Append(inventory_logs,
                             [product_id |-> adjust[a].product_id,
                              action |-> "adjustment",
                              quantity_change |-> adjust[a].quantity_change,
                              previous_quantity |-> adjust[a].previous_quantity,
                              new_quantity |-> adjust[a].newQuantity,
                              created_by |-> "admin1"])
                 /\ adjust' = [adjust EXCEPT ![a].pc = "done", ![a].status = 200]
            ELSE /\ UNCHANGED inventory_logs
                 /\ adjust' = [adjust EXCEPT ![a].pc = "done", ![a].status = 500,
                                 ![a].error = "logError"]
  /\ UNCHANGED <<stock, customers, transactions, transaction_items, receipts,
                 audit_logs, sale, cancel,
                 scenario, price, daily_reports, others>>

(***************************************************************************)
(* PUT /api/products/:id                                                   *)
(***************************************************************************)
\* request bodies: a new price, or a new quantity_in_stock; `given` holds
\* the fields the body has, a field that is absent is undefined and left
\* out of the update
ProductUpdates ==
  { [given |-> {"price"}, price |-> 1500, quantity_in_stock |-> 0],
    [given |-> {"quantity_in_stock"}, price |-> 0, quantity_in_stock |-> 3] }

\* lines 344-365: authorize('admin', 'store_manager'), then the update of
\* the products row; an error of the update is thrown
UpdateProduct(u) ==
  /\ u \in scenario
  /\ update[u].pc = "idle"
  /\ \E id \in Products, user \in Users, body \in ProductUpdates,
        ok \in WriteOutcomes :
       IF Role(user) \notin {"admin", "store_manager"}
         THEN /\ update' = [update EXCEPT ![u] =
                             [@ EXCEPT !.id = id, !.user = user, !.pc = "done",
                                       !.status = 403,
                                       !.error = "Insufficient permissions"]]
              /\ UNCHANGED <<price, stock, faults>>
         ELSE /\ Fault(ok)
              /\ price' = IF ok /\ "price" \in body.given /\ body.price # 0
                            THEN [price EXCEPT ![id] = body.price] ELSE price
              /\ stock' = IF ok /\ "quantity_in_stock" \in body.given
                            THEN [stock EXCEPT ![id] = body.quantity_in_stock]
                            ELSE stock
              /\ update' = [update EXCEPT ![u] =
                             IF ok
                               THEN [@ EXCEPT !.id = id, !.user = user,
                                              !.pc = "audit"]
                               ELSE [@ EXCEPT !.id = id, !.user = user,
                                              !.pc = "done", !.status = 500,
                                              !.error = "updateError"]]
  /\ UNCHANGED <<customers, transactions, transaction_items, receipts,
                 inventory_logs, audit_logs, daily_reports, sale, cancel,
                 adjust, report, now, scenario,
                 screen, auth>>

\* lines 367-377: the audit row is inserted, its result is not looked at,
\* and the updated product is answered
UpdateAudit(u) ==
  /\ update[u].pc = "audit"
  /\ \E ok \in WriteOutcomes :
       /\ Fault(ok)
       /\ audit_logs' =
            IF ok THEN Append(audit_logs,
                              [user_id |-> update[u].user,
                               action |-> "UPDATE_PRODUCT",
                               entity_id |-> update[u].id])
                  ELSE audit_logs
  /\ update' = [update EXCEPT ![u].pc = "done", ![u].status = 200]
  /\ UNCHANGED <<stock, customers, transactions, transaction_items, receipts,
                 inventory_logs, price, daily_reports, sale, cancel, adjust,
                 report, now, scenario,
                 screen, auth>>

(***************************************************************************)
(* The clock                                                               *)
(***************************************************************************)
\* calendar day of an instant
DateOf(t) == (t + 1) \div 2

\* the instant lies in the last second of its day (23:59:59.x)
InLastSecond(t) == t % 2 = 0

\* time passes; days are told apart only by the daily report, so the clock
\* moves in the runs that have a report session
Tick ==
  /\ scenario \cap ReportProcs # {}
  /\ now < MaxTime
  /\ now' = now + 1
  /\ UNCHANGED <<db, sale, cancel, adjust, update, report, faults, scenario,
                 screen, auth>>

(***************************************************************************)
(* POST /api/reports/daily                                                 *)
(***************************************************************************)
\* report_date values of the requests: the days the clock can reach
ReportDates == 1 .. DateOf(MaxTime)

\* lines 710-715: ids of the rows with status = 'completed' and
\* dateStr T00:00:00 <= created_at < dateStr T23:59:59
SelectCompleted(dateStr) ==
  {j \in DOMAIN transactions :
     /\ transactions[j].status = "completed"
     /\ DateOf(transactions[j].created_at) = dateStr
     /\ ~InLastSecond(transactions[j].created_at)}

\* the embedded transaction_items(...) of the selected rows
EmbeddedItems(ids) ==
  {i \in DOMAIN transaction_items : transaction_items[i].transaction_id \in ids}

RECURSIVE SumAmount(_, _)
\* transactions.reduce((sum, t) => sum + t[field], 0) over the rows `ids`
SumAmount(ids, field) ==
  IF ids = {} THEN 0
  ELSE LET j == CHOOSE x \in ids : TRUE
       IN transactions[j][field] + SumAmount(ids \ {j}, field)

\* lines 725-729: total_amount of the rows paid by `method`
SalesBy(ids, method) ==
  SumAmount({j \in ids : transactions[j].payment_method = method},
            "total_amount")

RECURSIVE SumQuantity(_)
\* productMap[name] += item.quantity over the item rows `rows`
SumQuantity(rows) ==
  IF rows = {} THEN 0
  ELSE LET i == CHOOSE x \in rows : TRUE
       IN transaction_items[i].quantity + SumQuantity(rows \ {i})

\* products.name: the catalog names its products after their ids
ProductName(p) == p

\* keys of productMap: the products met in the embedded items
NamesIn(rows) == {ProductName(transaction_items[i].product_id) : i \in rows}

\* orders in which the keys can have entered productMap: the select has no
\* ORDER BY, so rows and embedded items arrive in an order the database
\* chooses
EncounterOrders(names) ==
  {ord \in [1 .. Cardinality(names) -> names] :
     \A a, b \in DOMAIN ord : a # b => ord[a] # ord[b]}

\* Object.entries(productMap) in key order `ord`
Entries(rows, ord) ==
  [n \in DOMAIN ord |->
     [name |-> ord[n],
      quantity |-> SumQuantity({i \in rows :
                     ProductName(transaction_items[i].product_id) = ord[n]})]]

RECURSIVE SortByQuantity(_)
\* .sort((a, b) => b[1] - a[1]): descending by quantity, stable
SortByQuantity(entries) ==
  IF entries = << >> THEN << >>
  ELSE LET sorted == SortByQuantity(SubSeq(entries, 1, Len(entries) - 1))
           e == entries[Len(entries)]
           k == Cardinality({n \in DOMAIN sorted :
                               sorted[n].quantity >= e.quantity})
       IN SubSeq(sorted, 1, k) \o <<e>> \o SubSeq(sorted, k + 1, Len(sorted))

\* lines 742-745
TopProducts(rows, ord) ==
  LET sorted == SortByQuantity(Entries(rows, ord))
  IN SubSeq(sorted, 1, IF Len(sorted) < TopProductsLimit
                         THEN Len(sorted) ELSE TopProductsLimit)

\* lines 704-752: authorize('admin'), the select, and the metrics computed
\* from the rows it returned
ReportSelect(r) ==
  /\ r \in scenario
  /\ report[r].pc = "idle"
  /\ \E user \in Users, dateStr \in ReportDates :
       IF Role(user) # "admin"
         THEN report' = [report EXCEPT ![r] =
                           [@ EXCEPT !.user = user, !.dateStr = dateStr,
                                     !.pc = "done", !.status = 403,
                                     !.error = "Insufficient permissions"]]
         ELSE LET ids == SelectCompleted(dateStr)
                  rows == EmbeddedItems(ids)
              IN \E ord \in EncounterOrders(NamesIn(rows)) :
                   report' = [report EXCEPT ![r] =
                     [@ EXCEPT
                        !.user = user, !.dateStr = dateStr,
                        !.data = ids, !.items = rows,
                        !.totalSales =
                           SumAmount(ids, "total_amount"),
                        !.totalTransactions = Cardinality(ids),
                        !.totalDiscount =
                           SumAmount(ids, "discount_amount"),
                        !.totalTax = SumAmount(ids, "tax"),
                        !.paymentMethods =
                           [cash |-> SalesBy(ids, "cash"),
                            card |-> SalesBy(ids, "card"),
                            check |-> SalesBy(ids, "check")],
                        !.topProducts = TopProducts(rows, ord),
                        !.pc = "upsert"]]
  /\ UNCHANGED <<db, sale, cancel, adjust, update, now, faults, scenario,
                 screen, auth>>

\* lines 756-770 as the table stores it
ReportRow(l) ==
  [report_date |-> l.dateStr,
   total_sales |-> l.totalSales,
   total_transactions |-> l.totalTransactions,
   total_discount_given |-> l.totalDiscount,
   total_tax |-> l.totalTax,
   cash_sales |-> l.paymentMethods.cash,
   card_sales |-> l.paymentMethods.card,
   check_sales |-> l.paymentMethods.check,
   top_products |-> l.topProducts,
   generated_by |-> l.user]

\* Upsert that inserts without looking for the row of the date
UpsertAlwaysInserting(reports, row) == Append(reports, row)

\* upsert(..., { onConflict: 'report_date' }): INSERT ... ON CONFLICT
\* (report_date) DO UPDATE; the columns given replace those of the row of
\* that date, a new row is added when there is none
Upsert(reports, row) ==
  IF \E n \in DOMAIN reports : reports[n].report_date = row.report_date
    THEN [n \in DOMAIN reports |->
            IF reports[n].report_date = row.report_date THEN row
                                                        ELSE reports[n]]
    ELSE Append(reports, row)

\* lines 754-776: the upsert; an error is thrown
ReportUpsert(r) ==
  /\ report[r].pc = "upsert"
  /\ \E ok \in WriteOutcomes :
       /\ Fault(ok)
       /\ IF ok
            THEN /\ daily_reports' = Upsert(daily_reports, ReportRow(report[r]))
                 /\ report' = [report EXCEPT ![r].pc = "done", ![r].status = 200]
            ELSE /\ UNCHANGED daily_reports
                 /\ report' = [report EXCEPT ![r].pc = "done", ![r].status = 500,
                                 ![r].error = "reportError"]
  /\ UNCHANGED <<stock, customers, transactions, transaction_items, receipts,
                 inventory_logs, audit_logs, price, sale, cancel, adjust,
                 update, now, scenario,
                 screen, auth>>

(***************************************************************************)
(* The cashier interface (POS screen)                                      *)
(***************************************************************************)
\* calculateTotals(), lines 321-331 of the screen, on the cart and the
\* customer record the screen holds (`customer`: the set holding it, empty
\* when none is selected); amounts in 1/Scale cents
calculateTotals(items, customer) ==
  LET subtotal == SumLineTotals(items)
      discount ==
        IF \E d \in customer : d.is_eligible_for_discount
          THEN (subtotal * (CHOOSE d \in customer : TRUE).discount_percentage)
                 \div 100
          ELSE 0
      tax == ((subtotal - discount) * TaxRateTenths) \div 10
  IN [subtotal |-> subtotal, discount |-> discount, tax |-> tax,
      total |-> subtotal - discount + tax]

\* The amounts are IEEE 754 doubles.  An amount that is halfway between two
\* cents in decimal is held as a double right below, at or right above that
\* decimal; of the halfway amounts the carts of this module produce
\* (0.075, 0.475, 1.425, 2.375, 5.225, 15.675, 26.125) the double of 5.225,
\* 5.22499999999999964..., is the one that lies below.
DoubleBelowHalfway(u) == u \in {522500, -522500}

\* Number.prototype.toFixed(2), lines 495-509: the cents nearest to the
\* exact value of the double, the larger magnitude when it is halfway
toFixed2(u) ==
  LET a == IF u >= 0 THEN u ELSE -u
      n == IF DoubleBelowHalfway(u) THEN a \div Scale
                                    ELSE (2 * a + Scale) \div (2 * Scale)
  IN IF u >= 0 THEN n ELSE -n

\* the four amounts the screen shows, in cents
Displayed(totals) ==
  <<toFixed2(totals.subtotal), toFixed2(totals.discount),
    toFixed2(totals.tax), toFixed2(totals.total)>>

\* the products listed on the screen (GET /api/products)
ListedProducts ==
  { [id |-> "p1", name |-> "p1", price |-> 1000],
    [id |-> "p2", name |-> "p2", price |-> 500],
    [id |-> "p3", name |-> "p3", price |-> 150] }

\* quantities handed to updateQuantity: item.quantity - 1, item.quantity + 1
\* and parseInt(e.target.value) || 1 (lines 467-482), integers all
QuantityInputs == -1 .. MaxQuantity

\* addToCart that adds an entry whether or not the product is in the cart
addToCartAlwaysAppending(items, product) ==
  Append(items, [product_id |-> product.id, product_name |-> product.name,
                 unit_price |-> product.price, quantity |-> 1])

\* addToCart(product), lines 282-303: the next value of the cart
addToCart(items, product) ==
  IF \E i \in DOMAIN items : items[i].product_id = product.id
    THEN [i \in DOMAIN items |->
            IF items[i].product_id = product.id
              THEN [items[i] EXCEPT !.quantity = @ + 1]
              ELSE items[i]]
    ELSE Append(items, [product_id |-> product.id, product_name |-> product.name,
                        unit_price |-> product.price, quantity |-> 1])

\* removeFromCart(product_id), lines 305-307
removeFromCart(items, product_id) ==
  SelectSeq(items, LAMBDA item : item.product_id # product_id)

\* updateQuantity(product_id, quantity), lines 309-319
updateQuantity(items, product_id, quantity) ==
  IF quantity <= 0
    THEN removeFromCart(items, product_id)
    ELSE [i \in DOMAIN items |->
            IF items[i].product_id = product_id
              THEN [items[i] EXCEPT !.quantity = quantity]
              ELSE items[i]]

\* the rest of the model stands still while the cashier fills the cart
ScreenOnly ==
  UNCHANGED <<db, sale, cancel, adjust, update, report, now, faults, scenario,
              auth>>

\* a click on "Add to Cart" (line 407); quantities are kept to MaxQuantity
CallAddToCart(product) ==
  /\ \A i \in DOMAIN cart :
       cart[i].product_id = product.id => cart[i].quantity < MaxQuantity
  /\ cart' = addToCart(cart, product)
  /\ lastCall' = [op |-> "addToCart", product_id |-> product.id, quantity |-> 0]
  /\ ScreenOnly

\* a click on the remove button (line 477)
CallRemoveFromCart(product_id) ==
  /\ cart' = removeFromCart(cart, product_id)
  /\ lastCall' = [op |-> "removeFromCart", product_id |-> product_id,
                  quantity |-> 0]
  /\ ScreenOnly

\* the -, + buttons and the quantity field (lines 467-476)
CallUpdateQuantity(product_id, quantity) ==
  /\ cart' = updateQuantity(cart, product_id, quantity)
  /\ lastCall' = [op |-> "updateQuantity", product_id |-> product_id,
                  quantity |-> quantity]
  /\ ScreenOnly

(***************************************************************************)
(* Accounts: /api/auth/register, /api/users                                *)
(***************************************************************************)
UserRoles == {"admin", "store_manager", "cashier"}

\* who sends a request: nobody known (no token), or the user whose token it
\* carries; authMiddleware (lines 42-66) reads that users row
Requesters == {0} \cup DOMAIN users

\* req.user.role of an authenticated requester
RoleOf(requester) ==
  IF requester = 0 THEN "anonymous" ELSE users[requester].role

Emails == {"a@soko", "b@soko"}

\* bodies of the two routes that create a user; a body without role has
\* `given` = {}
UserBodies ==
  { [email |-> e, role |-> r, given |-> g] :
      e \in Emails, r \in UserRoles, g \in {{"role"}} }
    \cup { [email |-> e, role |-> "cashier", given |-> {}] : e \in Emails }

\* users.email is UNIQUE (schema line 15)
EmailTaken(email) == \E i \in DOMAIN users : users[i].email = email

\* the row of lines 92-101: role: role || 'cashier'; is_active is DEFAULT TRUE
RegisteredRow(body) ==
  [email |-> body.email,
   role |-> IF "role" \in body.given THEN body.role ELSE "cashier",
   is_active |-> TRUE]

\* POST /api/auth/register, lines 82-120: no middleware, any sender
Register(requester, body) ==
  /\ Len(users) < MaxUsers
  /\ \E ok \in WriteOutcomes :
       /\ Fault(ok)
       /\ IF ok /\ ~EmailTaken(body.email)
            THEN /\ users' = Append(users, RegisteredRow(body))
                 /\ grantedBy' = Append(grantedBy, RoleOf(requester))
            ELSE UNCHANGED auth
  /\ UNCHANGED <<db, sale, cancel, adjust, update, report, now, scenario,
                 screen>>

\* POST /api/users, lines 177-216: authMiddleware, authorize('admin'), the
\* insert, then the audit row, whose result is not looked at
CreateUser(requester, body) ==
  /\ Len(users) < MaxUsers
  /\ Len(audit_logs) < MaxAudit
  /\ \E ok \in WriteOutcomes :
       /\ Fault(ok)
       /\ IF /\ RoleOf(requester) = "admin" /\ "role" \in body.given
             /\ ok /\ ~EmailTaken(body.email)
            THEN /\ users' = Append(users, [email |-> body.email,
                                            role |-> body.role,
                                            is_active |-> TRUE])
                 /\ grantedBy' = Append(grantedBy, RoleOf(requester))
                 /\ audit_logs' = Append(audit_logs,
                                         [user_id |-> requester,
                                          action |-> "CREATE_USER",
                                          entity_id |-> Len(users) + 1])
            ELSE UNCHANGED <<auth, audit_logs>>
  /\ UNCHANGED <<stock, customers, transactions, transaction_items, receipts,
                 inventory_logs, price, daily_reports, sale, cancel, adjust,
                 update, report, now, scenario, screen>>

\* bodies of PUT /api/users/:id: a new role, or the account switched off
UserUpdates ==
  { [given |-> {"role"}, role |-> r, is_active |-> TRUE] : r \in UserRoles }
    \cup { [given |-> {"is_active"}, role |-> "cashier", is_active |-> FALSE] }

\* PUT /api/users/:id, lines 219-248: authMiddleware, authorize('admin'), the
\* update of the fields the body has, then the audit row
UpdateUser(requester, id, body) ==
  /\ Len(audit_logs) < MaxAudit
  /\ \E ok \in WriteOutcomes :
       /\ Fault(ok)
       /\ IF RoleOf(requester) = "admin" /\ ok /\ id \in DOMAIN users
            THEN /\ users' =
                      [users EXCEPT ![id] =
                         [@ EXCEPT !.role = IF "role" \in body.given
                                              THEN body.role ELSE @,
                                   !.is_active = IF "is_active" \in body.given
                                                   THEN body.is_active ELSE @]]
                 /\ grantedBy' =
                      IF "role" \in body.given /\ body.role # users[id].role
                        THEN [grantedBy EXCEPT ![id] = RoleOf(requester)]
                        ELSE grantedBy
                 /\ audit_logs' = Append(audit_logs,
                                         [user_id |-> requester,
                                          action |-> "UPDATE_USER",
                                          entity_id |-> id])
            ELSE UNCHANGED <<auth, audit_logs>>
  /\ UNCHANGED <<stock, customers, transactions, transaction_items, receipts,
                 inventory_logs, price, daily_reports, sale, cancel, adjust,
                 update, report, now, scenario, screen>>

(***************************************************************************)
(* Specification                                                           *)
(***************************************************************************)
Next ==
  \/ \E s \in SaleProcs : SaleStart(s, IF scenario = {"s1"} THEN ExampleRequests
                                                         ELSE SaleRequests)
  \/ \E s \in SaleProcs : SaleVerify(s)
  \/ \E s \in SaleProcs : SaleSelectCustomer(s)
  \/ \E s \in SaleProcs : SaleInsertTransaction(s)
  \/ \E s \in SaleProcs : SaleInsertItem(s)
  \/ \E s \in SaleProcs : SaleInsertReceipt(s)
  \/ \E k \in CancelProcs : CancelSelect(k)
  \/ \E k \in CancelProcs : CancelSelectItems(k)
  \/ \E k \in CancelProcs : CancelReturnStock(k)
  \/ \E k \in CancelProcs : CancelUpdateStatus(k)
  \/ \E k \in CancelProcs : CancelAudit(k)
  \/ \E a \in AdjustProcs : AdjustSelect(a)
  \/ \E a \in AdjustProcs : AdjustUpdate(a)
  \/ \E a \in AdjustProcs : AdjustLog(a)
  \/ \E u \in UpdateProcs : UpdateProduct(u)
  \/ \E u \in UpdateProcs : UpdateAudit(u)
  \/ \E r \in ReportProcs : ReportSelect(r)
  \/ \E r \in ReportProcs : ReportUpsert(r)
  \/ Tick

Spec == Init /\ [][Next]_vars

(***************************************************************************)
(* The sale and cancel handlers under fair scheduling                      *)
(***************************************************************************)
\* the runs of sale and cancel requests alone
LiveScenarios == { {"s1", "s2"}, {"s1", "k1"}, {"s1", "k1", "k2"} }

\* the database and the sessions as in Init
LiveInit ==
  /\ stock = InitStock
  /\ customers = InitCustomers
  /\ transactions = << >>
  /\ transaction_items = << >>
  /\ receipts = << >>
  /\ inventory_logs = << >>
  /\ audit_logs = << >>
  /\ price = InitPrice
  /\ daily_reports = << >>
  /\ now = 1
  /\ scenario \in LiveScenarios
  /\ sale = [s \in SaleProcs |-> SaleIdle]
  /\ cancel = [k \in CancelProcs |-> CancelIdle]
  /\ adjust = [a \in AdjustProcs |-> AdjustIdle]
  /\ update = [u \in UpdateProcs |-> UpdateIdle]
  /\ report = [r \in ReportProcs |-> ReportIdle]
  /\ faults = 0
  /\ cart = << >>
  /\ lastCall = NoCall
  /\ users = InitUsers
  /\ grantedBy = [i \in DOMAIN InitUsers |-> "seed"]

\* the continuation of the request of s after an await: the database
\* answers every statement and the event loop then resumes the handler
SaleResume(s) ==
  \/ SaleVerify(s)
  \/ SaleSelectCustomer(s)
  \/ SaleInsertTransaction(s)
  \/ SaleInsertItem(s)
  \/ SaleInsertReceipt(s)

CancelResume(k) ==
  \/ CancelSelectItems(k)
  \/ CancelReturnStock(k)
  \/ CancelUpdateStatus(k)
  \/ CancelAudit(k)

LiveNext ==
  \/ \E s \in SaleProcs : SaleStart(s, SaleRequests)
  \/ \E s \in SaleProcs : SaleResume(s)
  \/ \E k \in CancelProcs : CancelSelect(k)
  \/ \E k \in CancelProcs : CancelResume(k)

LiveSpec ==
  /\ LiveInit /\ [][LiveNext]_vars
  /\ \A s \in SaleProcs : WF_vars(SaleResume(s))
  /\ \A k \in CancelProcs : WF_vars(CancelResume(k))

(***************************************************************************)
(* The cart of the cashier screen                                          *)
(***************************************************************************)
CartNext ==
  \/ \E product \in ListedProducts : CallAddToCart(product)
  \/ \E product \in ListedProducts : CallRemoveFromCart(product.id)
  \/ \E product \in ListedProducts, quantity \in QuantityInputs :
       CallUpdateQuantity(product.id, quantity)

\* the screen of one cashier session
CartInit == Init /\ scenario = {"s1"}

CartSpec == CartInit /\ [][CartNext]_vars

(***************************************************************************)
(* The account routes                                                      *)
(***************************************************************************)
UserNext ==
  \/ \E requester \in Requesters, body \in UserBodies :
       Register(requester, body)
  \/ \E requester \in Requesters, body \in UserBodies :
       CreateUser(requester, body)
  \/ \E requester \in Requesters, id \in DOMAIN users, body \in UserUpdates :
       UpdateUser(requester, id, body)

\* the users table at start
UserInit == Init /\ scenario = {"s1"}

UserSpec == UserInit /\ [][UserNext]_vars


(***************************************************************************)
(* Vocabulary of the properties                                            *)
(***************************************************************************)
\* positions of the transaction_items rows of transaction t
ItemRowsOf(t) ==
  {j \in DOMAIN transaction_items : transaction_items[j].transaction_id = t}

\* positions of the receipts rows of transaction t
ReceiptRowsOf(t) == {j \in DOMAIN receipts : receipts[j].transaction_id = t}

RECURSIVE Requested(_, _)
\* units of product p asked for by an item list
Requested(items, p) ==
  IF items = << >> THEN 0
  ELSE (IF Head(items).product_id = p THEN Head(items).quantity ELSE 0)
         + Requested(Tail(items), p)

RECURSIVE SumOver(_, _)
\* sum of quantity * unit_price over the transaction_items rows at `rows`
SumOver(rows, items) ==
  IF rows = {} THEN 0
  ELSE LET j == CHOOSE x \in rows : TRUE
       IN items[j].quantity * items[j].unit_price
            + SumOver(rows \ {j}, items)

Finished(s) == sale[s].pc = "done"

\* the request of s left a transactions row behind
Persisted(s) == sale[s].transaction # 0

NoAdjustStarted == \A a \in AdjustProcs : adjust[a].pc = "idle"

(***************************************************************************)
(* C1.  Two or more concurrent sales that each ask for one unit of a       *)
(* product whose stock is 1: at most one of them ends with a persisted     *)
(* completed sale holding that unit.  (p1 starts with stock 1; the runs    *)
(* looked at are those in which no inventory adjustment has started.)      *)
(***************************************************************************)
C1_LastUnitSoldOnce ==
  NoAdjustStarted =>
    Cardinality({s \in SaleProcs :
                   /\ Finished(s) /\ sale[s].status = 201
                   /\ Requested(sale[s].req.items, "p1") = 1
                   /\ \E j \in ItemRowsOf(sale[s].transaction) :
                        transaction_items[j].product_id = "p1"})
      <= InitStock["p1"]

(***************************************************************************)
(* C2.  In every reachable state the stock-on-hand of every product is     *)
(* non-negative.                                                           *)
(***************************************************************************)
C2_StockNonNegative == \A p \in Products : stock[p] >= 0


(***************************************************************************)
(* C3.  A sale request whose stock query finds less stock than the item    *)
(* asks for is answered 400 "Insufficient stock" in that very step; the    *)
(* step changes no table (no stock, no sale row, no line item, no          *)
(* receipt) and the request has written nothing before it.                 *)
(***************************************************************************)
\* s runs a stock query in this step
Verifies(s) ==
  \/ sale[s].pc = "verify" /\ sale'[s] # sale[s]
  \/ sale[s].pc = "idle" /\ sale'[s].pc # "idle" /\ sale'[s].req.items # << >>

\* the item that query is about
Examined(s) ==
  IF sale[s].pc = "verify" THEN sale[s].req.items[sale[s].i]
                           ELSE sale'[s].req.items[1]

\* C3: a stock query that finds too little stock ends the request with
\* 400 "Insufficient stock" and nothing is written, before or in that step
C3_InsufficientStockNoEffect ==
  [][\A s \in SaleProcs :
       (Verifies(s) /\ stock[Examined(s).product_id] < Examined(s).quantity)
         => /\ sale'[s].pc = "done"
            /\ sale'[s].status = 400
            /\ sale'[s].error = "Insufficient stock"
            /\ sale'[s].transaction = 0
            /\ UNCHANGED db]_vars

\* a request was refused at its second item, after its first item passed
C3_Witness ==
  \E s \in SaleProcs :
    /\ Finished(s) /\ sale[s].error = "Insufficient stock"
    /\ sale[s].i = 2
    /\ sale[s].req.items[2].quantity > stock[sale[s].req.items[2].product_id]
    /\ stock = InitStock /\ transactions = << >>


(***************************************************************************)
(* C4.  Stock reservation of a sale is all-or-nothing over its item list:  *)
(* once the request has finished, either every listed item was deducted    *)
(* or no stock was reduced.  (Read on the runs where the request is the    *)
(* only one at work, so that stock differs from its initial value by this  *)
(* request alone.)                                                         *)
(***************************************************************************)
AllDeducted(s) ==
  stock = [p \in Products |-> InitStock[p] - Requested(sale[s].req.items, p)]

\* C4: a finished request deducted every item or none
C4_ReservationAllOrNothing ==
  \A s \in SaleProcs :
    (scenario = {s} /\ Finished(s)) => (AllDeducted(s) \/ stock = InitStock)

(***************************************************************************)
(* C5.  A finished sale request has either done all of {sale row, every    *)
(* line item with its stock deduction, receipt, loyalty accrual when a     *)
(* customer was given} or none of them.                                    *)
(***************************************************************************)
\* purchase_count of c counts the transactions rows of c
Accrued(c) ==
  customers[c].purchase_count =
    InitCustomers[c].purchase_count
      + Cardinality({j \in DOMAIN transactions : transactions[j].customer_id = c})

AllCommitted(s) ==
  /\ Persisted(s)
  /\ Cardinality(ItemRowsOf(sale[s].transaction)) = Len(sale[s].req.items)
  /\ Cardinality(ReceiptRowsOf(sale[s].transaction)) = 1
  /\ sale[s].req.customer_id # NULL => Accrued(sale[s].req.customer_id)

NoneCommitted(s) ==
  /\ ~Persisted(s)
  /\ scenario = {s} => /\ stock = InitStock /\ customers = InitCustomers
                       /\ transactions = << >> /\ transaction_items = << >>
                       /\ receipts = << >>

\* C5: a finished request committed everything or nothing
C5_CreateSaleAtomic ==
  \A s \in SaleProcs : Finished(s) => (AllCommitted(s) \/ NoneCommitted(s))

(***************************************************************************)
(* C6.  When a line item of a sale fails to persist after stock was        *)
(* already deducted for that sale, the request ends with a persistence     *)
(* failure (500) and the deduction is released.                            *)
(***************************************************************************)
\* some but not all line items of the finished request of s are stored
LineItemLost(s) ==
  /\ Finished(s) /\ Persisted(s)
  /\ Cardinality(ItemRowsOf(sale[s].transaction)) >= 1
  /\ Cardinality(ItemRowsOf(sale[s].transaction)) < Len(sale[s].req.items)

\* C6: a lost line item ends in 500 with the stock given back
C6_PersistenceFailureCompensated ==
  \A s \in SaleProcs :
    LineItemLost(s) => /\ sale[s].status = 500
                       /\ scenario = {s} => stock = InitStock


(***************************************************************************)
(* C7.  The stored fields of every persisted sale satisfy                  *)
(* total = subtotal - discount + tax exactly, in cents.                    *)
(***************************************************************************)
C7_StoredTotalIdentity ==
  \A j \in DOMAIN transactions :
    transactions[j].total_amount =
      transactions[j].subtotal - transactions[j].discount_amount
        + transactions[j].tax

(***************************************************************************)
(* C8.  The items [{price 1999.99, qty 1}, {price 29.99, qty 2}] sold to   *)
(* an eligible customer (5%) are stored with subtotal 2059.97, discount    *)
(* 103.00, tax 195.70 and total 2152.67.                                   *)
(***************************************************************************)
ExampleCart == <<Item("p1", 1, 199999), Item("p2", 2, 2999)>>

\* s sold the example cart to a customer read as eligible at 5%
SoldExample(s) ==
  /\ Persisted(s)
  /\ sale[s].req.items = ExampleCart
  /\ \E d \in sale[s].customerData :
       d.is_eligible_for_discount /\ d.discount_percentage = 5

StoredAmounts(j) ==
  <<transactions[j].subtotal, transactions[j].discount_amount,
    transactions[j].tax, transactions[j].total_amount>>

\* C8 (amended): the example is stored as 2059.97 / 103.00 / 195.70 / 2152.67
C8_ExampleTotals ==
  \A s \in SaleProcs :
    SoldExample(s) =>
      StoredAmounts(sale[s].transaction) = <<205997, 10300, 19570, 215267>>

\* C8 (as stated): the example is stored as 2059.97 / 102.99 / 195.70 /
\* 2152.68
C8_ExampleTotalsAsStated ==
  \A s \in SaleProcs :
    SoldExample(s) =>
      StoredAmounts(sale[s].transaction) = <<205997, 10299, 19570, 215268>>

C8_Witness == \E s \in SaleProcs : SoldExample(s) /\ sale[s].status = 201

(***************************************************************************)
(* C9.  The stored subtotal of every persisted sale equals the sum of      *)
(* quantity x unit_price over the line items stored for it.  (Stated for   *)
(* the sales whose request has finished.)                                  *)
(***************************************************************************)
C9_SubtotalIsSumOfLines ==
  \A s \in SaleProcs :
    (Finished(s) /\ Persisted(s)) =>
      transactions[sale[s].transaction].subtotal =
        SumOver(ItemRowsOf(sale[s].transaction), transaction_items)

(***************************************************************************)
(* C10.  The discount of a sale is decided by the customer row as it was   *)
(* read before the sale's own accrual: subtotal x pct / 100 when that row  *)
(* was eligible, 0 when it was not, and 0 when the sale names no customer. *)
(***************************************************************************)
C10_DiscountFromPriorEligibility ==
  \A s \in SaleProcs :
    Persisted(s) =>
      LET row == transactions[sale[s].transaction]
      IN /\ row.customer_id = NULL => row.discount_amount = 0
         /\ row.customer_id # NULL =>
              \E d \in sale[s].customerData :
                \* the row was read before this sale was counted
                /\ d.purchase_count < customers[row.customer_id].purchase_count
                /\ row.discount_amount =
                     IF d.is_eligible_for_discount
                       THEN ToDecimal2((row.subtotal * Scale * d.discount_percentage)
                                         \div 100)
                       ELSE 0

\* a customer whose own purchase took the count to 10 paid no discount on
\* it, while an already eligible customer was given one
C10_Witness ==
  \E s, u \in SaleProcs :
    /\ Persisted(s) /\ Persisted(u)
    /\ transactions[sale[s].transaction].customer_id = "c1"
    /\ customers["c1"].purchase_count >= EligiblePurchaseCount
    /\ transactions[sale[s].transaction].discount_amount = 0
    /\ transactions[sale[u].transaction].customer_id = "c2"
    /\ transactions[sale[u].transaction].discount_amount > 0

(***************************************************************************)
(* C11.  In every reachable state and for every customer the eligibility   *)
(* flag is true exactly when purchase_count >= 10 or total_purchases >=    *)
(* 1000.00, and discount_percentage is 5 when the flag is true and 0       *)
(* otherwise.                                                              *)
(***************************************************************************)
Qualifies(row) ==
  \/ row.purchase_count >= EligiblePurchaseCount
  \/ row.total_purchases >= EligibleTotalPurchases

\* C11: the flag is true exactly when the row qualifies, the percentage 5 or 0
C11_EligibilityInvariant ==
  \A c \in Customers :
    /\ customers[c].is_eligible_for_discount <=> Qualifies(customers[c])
    /\ customers[c].discount_percentage =
         IF customers[c].is_eligible_for_discount
           THEN EligibleDiscountPercentage ELSE 0

(***************************************************************************)
(* C12.  Customer c1 starts with purchase_count 9 and total_purchases      *)
(* 500.00, not eligible.  Every sale of c1 whose request read the customer *)
(* row after an accrual had brought the count to 10 read it as eligible    *)
(* and stored a discount of 5% of its subtotal.                            *)
(***************************************************************************)
C12_DiscountAfterTenthPurchase ==
  \A s \in SaleProcs :
    (/\ Persisted(s)
     /\ sale[s].req.customer_id = "c1"
     /\ \E d \in sale[s].customerData :
          d.purchase_count >= EligiblePurchaseCount)
      => /\ \A d \in sale[s].customerData : d.is_eligible_for_discount
         /\ transactions[sale[s].transaction].discount_amount =
              ToDecimal2((transactions[sale[s].transaction].subtotal * Scale
                            * EligibleDiscountPercentage) \div 100)

(***************************************************************************)
(* C13.  In every reachable state the purchase_count of every customer is  *)
(* its initial count plus the number of sales stored for the customer, and *)
(* total_purchases is its initial value plus the sum of their totals; a    *)
(* request sent again is a further sale and is counted as one, and a       *)
(* request that was answered with a failure has stored no sale, so that    *)
(* sending it again counts nothing twice.                                  *)
(***************************************************************************)
RECURSIVE SumOfTotals(_, _)
\* sum of total_amount over the first n transactions rows of customer c
SumOfTotals(c, n) ==
  IF n = 0 THEN 0
  ELSE (IF transactions[n].customer_id = c THEN transactions[n].total_amount
                                           ELSE 0)
         + SumOfTotals(c, n - 1)

\* C13: count and spend are the initial values plus the stored sales
C13_AccrualExactlyOnce ==
  \A c \in Customers :
    /\ Accrued(c)
    /\ customers[c].total_purchases =
         InitCustomers[c].total_purchases + SumOfTotals(c, Len(transactions))
    /\ \A s \in SaleProcs :
         (Finished(s) /\ sale[s].status # 201) => ~Persisted(s)

\* the same request was sent twice for c1 and both sales are stored
C13_Witness ==
  \E s, u \in SaleProcs :
    /\ s # u /\ Persisted(s) /\ Persisted(u)
    /\ sale[s].req = sale[u].req
    /\ sale[s].req.customer_id = "c1"
    /\ customers["c1"].purchase_count = InitCustomers["c1"].purchase_count + 2

(***************************************************************************)
(* C14.  No two sales carry the same transaction number, no two receipts   *)
(* the same receipt number, and no sale request fails because the number   *)
(* it drew is already in use.                                              *)
(***************************************************************************)
C14_UniqueNumbersWithoutFailure ==
  /\ \A i, j \in DOMAIN transactions :
       i # j => transactions[i].transaction_number
                  # transactions[j].transaction_number
  /\ \A i, j \in DOMAIN receipts :
       i # j => receipts[i].receipt_number # receipts[j].receipt_number
  /\ \A s \in SaleProcs : sale[s].error # "duplicate key"

(***************************************************************************)
(* C15.  Under sequential calls on one date the n-th transaction number    *)
(* issued carries counter n and the n-th receipt number carries counter n. *)
(* (Read on the runs with a single session, all on one date.)              *)
(***************************************************************************)
C15_SequentialNumbersNoGaps ==
  Cardinality(scenario) = 1 =>
    /\ \A n \in DOMAIN transactions : transactions[n].transaction_number = n
    /\ \A n \in DOMAIN receipts : receipts[n].receipt_number = n

(***************************************************************************)
(* C16.  A sale row is created with status completed, its status changes   *)
(* only from completed to cancelled, a cancelled row never becomes         *)
(* completed again, no row is ever deleted, and a sale request that ends   *)
(* with a failure has left no row.                                         *)
(***************************************************************************)
C16_StatusTransitions ==
  [][/\ \A j \in DOMAIN transactions :
          /\ j \in DOMAIN transactions'
          /\ transactions'[j].status \in {transactions[j].status, "cancelled"}
          /\ transactions[j].status = "cancelled"
               => transactions'[j].status = "cancelled"
     /\ \A j \in DOMAIN transactions' \ DOMAIN transactions :
          transactions'[j].status = "completed"
     /\ \A s \in SaleProcs :
          (sale'[s].pc = "done" /\ sale'[s].status # 201)
            => sale'[s].transaction = 0
     /\ Len(transactions')
          = Cardinality({s \in SaleProcs : sale'[s].transaction # 0})]_vars

\* a sale was cancelled, and cancelled once more by a second request
C16_Witness ==
  \E j \in DOMAIN transactions :
    /\ transactions[j].status = "cancelled"
    /\ \A k \in CancelProcs :
         cancel[k].pc = "done" /\ cancel[k].status = 200 /\ cancel[k].id = j

(***************************************************************************)
(* C17.  A cancel request for a stored sale whose status is not completed  *)
(* is refused with 409 AlreadyCancelled and changes no table.  (Stated for *)
(* requesters who are allowed to cancel the sale.)                         *)
(***************************************************************************)
\* the request of k arrives in this step and its transaction is looked up
CancelArrives(k) == cancel[k].pc = "idle" /\ cancel'[k].pc # "idle"

\* C17: cancelling a sale that is not completed is refused with 409, no write
C17_AlreadyCancelledNoEffect ==
  [][\A k \in CancelProcs :
       (/\ CancelArrives(k)
        /\ cancel'[k].id \in DOMAIN transactions
        /\ transactions[cancel'[k].id].status # "completed"
        /\ \/ transactions[cancel'[k].id].cashier_id = cancel'[k].user
           \/ Role(cancel'[k].user) = "admin")
         => /\ cancel'[k].pc = "done"
            /\ cancel'[k].status = 409
            /\ UNCHANGED db]_vars

(***************************************************************************)
(* C18.  A cancel request whose id matches no sale is refused with a 4xx   *)
(* NotFound answer and changes no table.                                   *)
(***************************************************************************)
C18_NotFoundNoEffect ==
  [][\A k \in CancelProcs :
       (CancelArrives(k) /\ cancel'[k].id \notin DOMAIN transactions)
         => /\ cancel'[k].pc = "done"
            /\ cancel'[k].status \in 400 .. 499
            /\ UNCHANGED db]_vars

(***************************************************************************)
(* C19.  A cancel request for a stored sale by a requester who is neither  *)
(* the cashier of the sale nor an admin is answered 403 Unauthorized in    *)
(* the step that looks the sale up and changes no table; and whenever the  *)
(* status of a sale changes, a cancel request of its cashier or of an      *)
(* admin for that sale is at work.                                         *)
(***************************************************************************)
C19_OnlyOwnerOrAdminCancels ==
  [][/\ \A k \in CancelProcs :
          (/\ CancelArrives(k)
           /\ cancel'[k].id \in DOMAIN transactions
           /\ transactions[cancel'[k].id].cashier_id # cancel'[k].user
           /\ Role(cancel'[k].user) # "admin")
            => /\ cancel'[k].pc = "done"
               /\ cancel'[k].status = 403
               /\ cancel'[k].error = "Unauthorized"
               /\ UNCHANGED db
     /\ \A j \in DOMAIN transactions :
          transactions'[j].status # transactions[j].status
            => \E k \in CancelProcs :
                 /\ cancel[k].id = j
                 /\ \/ cancel[k].user = transactions[j].cashier_id
                    \/ Role(cancel[k].user) = "admin"]_vars

\* a cashier asked to cancel the finished sale of another cashier and was
\* refused; the sale is still completed and its stock deduction stands
C19_Witness ==
  \E k \in CancelProcs, s \in SaleProcs :
    /\ cancel[k].pc = "done" /\ cancel[k].status = 403
    /\ Finished(s) /\ sale[s].status = 201
    /\ cancel[k].id = sale[s].transaction
    /\ Role(cancel[k].user) = "cashier"
    /\ cancel[k].user # transactions[cancel[k].id].cashier_id
    /\ transactions[cancel[k].id].status = "completed"

(***************************************************************************)
(* C20.  When a sale has been stored with all its line items and is then   *)
(* cancelled, with no other request at work, every product's stock is back *)
(* at its value before the sale.                                           *)
(***************************************************************************)
C20_CancelRestoresStock ==
  \A s \in SaleProcs, k \in CancelProcs :
    (/\ scenario = {s, k}
     /\ Finished(s) /\ sale[s].status = 201
     /\ cancel[k].pc = "done" /\ cancel[k].status = 200
     /\ cancel[k].id = sale[s].transaction
     /\ Len(cancel[k].items) = Len(sale[s].req.items)
     /\ faults = 0)
      => stock = InitStock

(***************************************************************************)
(* C21.  Over any sequence or interleaving of cancel requests for one      *)
(* sale at most one of them gets through; the others fail.  Stock never    *)
(* rises above its value before the sale.  (The second part is read on the *)
(* runs of one sale and two cancel requests.)                              *)
(***************************************************************************)
\* the cancel request of k was carried out and answered 200
Cancelled(k) == cancel[k].pc = "done" /\ cancel[k].status = 200

\* C21: at most one cancel request per sale gets through; no upward drift
C21_ReleaseAtMostOnce ==
  /\ \A j \in DOMAIN transactions :
       Cardinality({k \in CancelProcs : Cancelled(k) /\ cancel[k].id = j}) <= 1
  /\ scenario = {"s1"} \cup CancelProcs
       => \A p \in Products : stock[p] <= InitStock[p]

(***************************************************************************)
(* C22.  A step of a cancel request leaves customers, line items and       *)
(* receipts as they are, adds and removes no sale, and changes nothing of  *)
(* a sale but its status.                                                  *)
(***************************************************************************)
CancelStep == \E k \in CancelProcs : cancel'[k] # cancel[k]

\* C22: a cancel step changes nothing of the sale side but the status
C22_CancelFrame ==
  [][CancelStep =>
       /\ customers' = customers
       /\ transaction_items' = transaction_items
       /\ receipts' = receipts
       /\ DOMAIN transactions' = DOMAIN transactions
       /\ \A j \in DOMAIN transactions :
            [transactions'[j] EXCEPT !.status = transactions[j].status]
              = transactions[j]]_vars

\* a sale of c1 with line items and a receipt was cancelled; its amounts
\* and the accrual of c1 stand
C22_Witness ==
  \E k \in CancelProcs :
    /\ Cancelled(k)
    /\ transactions[cancel[k].id].status = "cancelled"
    /\ transactions[cancel[k].id].customer_id = "c1"
    /\ transactions[cancel[k].id].total_amount > 0
    /\ ItemRowsOf(cancel[k].id) # {}
    /\ ReceiptRowsOf(cancel[k].id) # {}
    /\ customers["c1"].purchase_count > InitCustomers["c1"].purchase_count

(***************************************************************************)
(* C23.  The unit price and line total of every stored line item are those *)
(* of the request, whatever the catalog price is when the row is written;  *)
(* the subtotal of a stored sale is the sum over the request's items; and  *)
(* no step, a change of the catalog price included, changes a stored line  *)
(* item or the subtotal, discount, tax or total of a stored sale.          *)
(***************************************************************************)
Amounts(row) ==
  <<row.subtotal, row.discount_amount, row.tax, row.total_amount>>

\* C23: stored prices and amounts are those of the request and never change
C23_PriceSnapshot ==
  [][/\ \A i \in DOMAIN transaction_items :
          /\ i \in DOMAIN transaction_items'
          /\ transaction_items'[i] = transaction_items[i]
     /\ \A j \in DOMAIN transactions :
          /\ j \in DOMAIN transactions'
          /\ Amounts(transactions'[j]) = Amounts(transactions[j])
     /\ \A s \in SaleProcs :
          sale'[s].transaction # 0 =>
            /\ transactions'[sale'[s].transaction].subtotal
                 = ToDecimal2(SumLineTotals(sale'[s].req.items))
            /\ \A i \in DOMAIN transaction_items' :
                 transaction_items'[i].transaction_id = sale'[s].transaction
                   => \E n \in DOMAIN sale'[s].req.items :
                        LET item == sale'[s].req.items[n]
                        IN /\ transaction_items'[i].product_id = item.product_id
                           /\ transaction_items'[i].unit_price = item.unit_price
                           /\ transaction_items'[i].line_total
                                = item.quantity * item.unit_price]_vars

\* the price of a product was changed and a finished sale holds a line
\* item of that product at the price of its request
C23_Witness ==
  \E s \in SaleProcs, u \in UpdateProcs :
    /\ update[u].pc = "done" /\ update[u].status = 200
    /\ price[update[u].id] # InitPrice[update[u].id]
    /\ Finished(s) /\ sale[s].status = 201
    /\ \E i \in ItemRowsOf(sale[s].transaction) :
         /\ transaction_items[i].product_id = update[u].id
         /\ transaction_items[i].unit_price # price[update[u].id]

(***************************************************************************)
(* C24.  Once its request has finished, every stored sale has exactly one  *)
(* receipt (so 201 is answered only for a sale with its receipt), and      *)
(* every receipt belongs to a stored sale.                                 *)
(***************************************************************************)
C24_ReceiptsOneToOne ==
  /\ \A s \in SaleProcs :
       (Finished(s) /\ Persisted(s))
         => Cardinality(ReceiptRowsOf(sale[s].transaction)) = 1
  /\ \A i \in DOMAIN receipts :
       receipts[i].transaction_id \in DOMAIN transactions

(***************************************************************************)
(* C25.  A sale request whose item list is empty, or holds a quantity that *)
(* is not greater than 0, or names an unknown product, stores no sale, is  *)
(* answered 400 and, being the only request at work, leaves every table    *)
(* as it was.  (Read on the runs in which no database write has failed.)   *)
(***************************************************************************)
InvalidInput(req) ==
  \/ req.items = << >>
  \/ \E n \in DOMAIN req.items :
       \/ req.items[n].quantity <= 0
       \/ req.items[n].product_id \notin Products

\* C25: an invalid request stores nothing and is answered 400
C25_InvalidInputNoEffect ==
  \A s \in SaleProcs :
    (sale[s].pc # "idle" /\ InvalidInput(sale[s].req) /\ faults = 0)
      => /\ ~Persisted(s)
         /\ Finished(s) => sale[s].status = 400
         /\ scenario = {s} =>
              /\ stock = InitStock /\ customers = InitCustomers
              /\ transactions = << >> /\ transaction_items = << >>
              /\ receipts = << >>

(***************************************************************************)
(* C26.  After every step daily_reports holds at most one row per date; a  *)
(* report written for a date that has a row replaces that row, the number  *)
(* of rows staying the same, and a report for a new date adds one row.     *)
(***************************************************************************)
\* the upsert of r is executed in this step
Upserts(r) ==
  report[r].pc = "upsert" /\ report'[r].pc = "done" /\ report'[r].status = 200

HasReport(date) ==
  \E n \in DOMAIN daily_reports : daily_reports[n].report_date = date

\* C26: at most one row per date; a later report replaces the row
C26_OneReportPerDate ==
  [][/\ \A a, b \in DOMAIN daily_reports' :
          a # b => daily_reports'[a].report_date # daily_reports'[b].report_date
     /\ \A r \in ReportProcs :
          Upserts(r) =>
            /\ \E n \in DOMAIN daily_reports' :
                 daily_reports'[n] = ReportRow(report[r])
            /\ Len(daily_reports') =
                 Len(daily_reports)
                   + (IF HasReport(report[r].dateStr) THEN 0 ELSE 1)]_vars

\* two reports with different figures were generated for one date and the
\* table holds one row
C26_Witness ==
  \E a, b \in ReportProcs :
    /\ a # b
    /\ report[a].pc = "done" /\ report[a].status = 200
    /\ report[b].pc = "done" /\ report[b].status = 200
    /\ report[a].dateStr = report[b].dateStr
    /\ report[a].totalTransactions # report[b].totalTransactions
    /\ Len(daily_reports) = 1

(***************************************************************************)
(* C27.  Two reports computed for the same date from the same sales and    *)
(* line items are identical: same totals, same payment breakdown, same     *)
(* top products in the same order.                                         *)
(***************************************************************************)
\* the request of r has computed its report
Computed(r) ==
  report[r].pc = "upsert" \/ (report[r].pc = "done" /\ report[r].status # 403)

\* the report without the user who asked for it
Figures(r) == [ReportRow(report[r]) EXCEPT !.generated_by = NULL]

\* C27: same date and same sales read give the same report
C27_ReportIdempotent ==
  \A a, b \in ReportProcs :
    (/\ Computed(a) /\ Computed(b)
     /\ report[a].dateStr = report[b].dateStr
     /\ report[a].data = report[b].data
     /\ report[a].items = report[b].items)
      => Figures(a) = Figures(b)

(***************************************************************************)
(* C28.  The report computed for a date counts exactly the sales that are  *)
(* completed and were created on that day, any time from 00:00 up to       *)
(* 24:00, and its totals are the sums of their stored total, discount and  *)
(* tax.                                                                    *)
(***************************************************************************)
\* ids of the completed sales created on the day
CompletedOn(date) ==
  {j \in DOMAIN transactions :
     /\ transactions[j].status = "completed"
     /\ DateOf(transactions[j].created_at) = date}

\* C28: the figures are those of the completed sales of the whole day
C28_ReportCoversTheDay ==
  [][\A r \in ReportProcs :
       (report[r].pc = "idle" /\ report'[r].pc = "upsert")
         => LET day == CompletedOn(report'[r].dateStr)
            IN /\ report'[r].totalTransactions = Cardinality(day)
               /\ report'[r].totalSales = SumAmount(day, "total_amount")
               /\ report'[r].totalDiscount = SumAmount(day, "discount_amount")
               /\ report'[r].totalTax = SumAmount(day, "tax")]_vars

(***************************************************************************)
(* C29.  The top products of a computed report are the products sold in    *)
(* the sales it read (at most five), by units sold descending; products    *)
(* with equal units are ordered by higher revenue, then by name.           *)
(***************************************************************************)
RECURSIVE SumLineTotal(_)
SumLineTotal(rows) ==
  IF rows = {} THEN 0
  ELSE LET i == CHOOSE x \in rows : TRUE
       IN transaction_items[i].line_total + SumLineTotal(rows \ {i})

\* revenue of the product called `name` in the line items read by r
Revenue(r, name) ==
  SumLineTotal({i \in report[r].items :
                  ProductName(transaction_items[i].product_id) = name})

\* lexical order of the product names
NameBefore(a, b) == <<a, b>> = <<"p1", "p2">>

RanksBefore(r, a, b) ==
  \/ a.quantity > b.quantity
  \/ /\ a.quantity = b.quantity
     /\ \/ Revenue(r, a.name) > Revenue(r, b.name)
        \/ /\ Revenue(r, a.name) = Revenue(r, b.name)
           /\ NameBefore(a.name, b.name)

\* C29: top products by units, ties by revenue, then by name
C29_TopProductsOrder ==
  \A r \in ReportProcs :
    Computed(r) =>
      /\ {report[r].topProducts[n].name : n \in DOMAIN report[r].topProducts}
           = NamesIn(report[r].items)
      /\ \A n \in DOMAIN report[r].topProducts :
           n + 1 \in DOMAIN report[r].topProducts
             => RanksBefore(r, report[r].topProducts[n],
                               report[r].topProducts[n + 1])

(***************************************************************************)
(* C30.  Operations on one stock counter are serializable.  A sale that    *)
(* stored all its line items and an inventory adjustment that was carried  *)
(* out, both finished and nothing else at work, leave the stock that every *)
(* sequential order of the two leaves: the initial stock minus the         *)
(* quantities sold plus the quantity change of the adjustment.             *)
(***************************************************************************)
C30_StockSerializable ==
  \A s \in SaleProcs, a \in AdjustProcs :
    (/\ scenario = {s, a} /\ faults = 0
     /\ Finished(s) /\ sale[s].status = 201
     /\ adjust[a].pc = "done" /\ adjust[a].status = 200)
      => stock = [p \in Products |->
                    InitStock[p] - Requested(sale[s].req.items, p)
                      + (IF p = adjust[a].product_id
                           THEN adjust[a].quantity_change ELSE 0)]

(***************************************************************************)
(* C31.  No failure is swallowed: a sale request answered 201 has stored   *)
(* every line item of its request and its receipt, and a cancel request    *)
(* answered 200 has written its audit row and, for each line item it read, *)
(* has raised the stock (read on the runs of one sale and one cancel).     *)
(***************************************************************************)
\* the audit_logs rows written for the cancellation of transaction t
CancelAuditRowsOf(t) ==
  {j \in DOMAIN audit_logs : /\ audit_logs[j].action = "CANCEL_TRANSACTION"
                             /\ audit_logs[j].entity_id = t}

\* C31: a success response implies that every write took effect
C31_NoSwallowedFailure ==
  /\ \A s \in SaleProcs :
       (Finished(s) /\ sale[s].status = 201)
         => /\ Cardinality(ItemRowsOf(sale[s].transaction))
                 = Len(sale[s].req.items)
            /\ ReceiptRowsOf(sale[s].transaction) # {}
  /\ \A k \in CancelProcs :
       Cancelled(k)
         => /\ CancelAuditRowsOf(cancel[k].id) # {}
            /\ (scenario = {"s1", k} /\ cancel[k].items # << >>)
                 => \E p \in Products : stock[p] > InitStock[p]
                                          - Requested(sale["s1"].req.items, p)

(***************************************************************************)
(* C33.  Stock conservation.  In every state in which no request is under  *)
(* way, for every product: stock = initial stock + the quantity changes of *)
(* the inventory adjustments carried out on it - the quantities of its     *)
(* line items in sales whose status is completed.  (Read on the runs       *)
(* without a failed write and without a PUT /api/products/:id, which sets  *)
(* the stock to a given value.)                                            *)
(***************************************************************************)
\* no request is between two of its statements
Quiescent ==
  /\ \A s \in SaleProcs : sale[s].pc \in {"idle", "done"}
  /\ \A k \in CancelProcs : cancel[k].pc \in {"idle", "done"}
  /\ \A a \in AdjustProcs : adjust[a].pc \in {"idle", "done"}
  /\ \A u \in UpdateProcs : update[u].pc \in {"idle", "done"}
  /\ \A r \in ReportProcs : report[r].pc \in {"idle", "done"}

RECURSIVE SumAdjusted(_, _)
\* sum of the quantity changes of the adjustments of `procs` carried out on p
SumAdjusted(procs, p) ==
  IF procs = {} THEN 0
  ELSE LET a == CHOOSE x \in procs : TRUE
       IN (IF /\ adjust[a].pc = "done" /\ adjust[a].status = 200
              /\ adjust[a].product_id = p
             THEN adjust[a].quantity_change ELSE 0)
            + SumAdjusted(procs \ {a}, p)

RECURSIVE SumSold(_, _)
\* units of p in the transaction_items rows at `rows` whose sale is completed
SumSold(rows, p) ==
  IF rows = {} THEN 0
  ELSE LET j == CHOOSE x \in rows : TRUE
       IN (IF /\ transaction_items[j].product_id = p
              /\ transactions[transaction_items[j].transaction_id].status
                   = "completed"
             THEN transaction_items[j].quantity ELSE 0)
            + SumSold(rows \ {j}, p)

NoUpdateStarted == \A u \in UpdateProcs : update[u].pc = "idle"

\* C33: stock = initial + adjustments - completed sales, when nothing runs
C33_StockConservation ==
  (Quiescent /\ faults = 0 /\ NoUpdateStarted)
    => \A p \in Products :
         stock[p] = InitStock[p] + SumAdjusted(AdjustProcs, p)
                      - SumSold(DOMAIN transaction_items, p)

(***************************************************************************)
(* C36.  The inventory log is a complete audit of stock.  In every state   *)
(* in which no request is under way and no write has failed, for every     *)
(* product the quantity changes of its inventory_logs rows add up to       *)
(* stock - initial stock, and every adjustment row has                     *)
(* new_quantity = previous_quantity + quantity_change.                     *)
(***************************************************************************)
RECURSIVE SumLogged(_, _)
\* sum of quantity_change over the inventory_logs rows at `rows` that are of p
SumLogged(rows, p) ==
  IF rows = {} THEN 0
  ELSE LET j == CHOOSE x \in rows : TRUE
       IN (IF inventory_logs[j].product_id = p
             THEN inventory_logs[j].quantity_change ELSE 0)
            + SumLogged(rows \ {j}, p)

\* C36: the log accounts for every change of stock
C36_InventoryLogComplete ==
  (Quiescent /\ faults = 0)
    => /\ \A p \in Products :
            SumLogged(DOMAIN inventory_logs, p) = stock[p] - InitStock[p]
       /\ \A j \in DOMAIN inventory_logs :
            inventory_logs[j].action = "adjustment"
              => inventory_logs[j].new_quantity
                   = inventory_logs[j].previous_quantity
                       + inventory_logs[j].quantity_change

(***************************************************************************)
(* C34.  A step of a cancel request changes the stock of no product other  *)
(* than those of the line items of the sale it cancels, and changes no     *)
(* catalog price.                                                          *)
(***************************************************************************)
\* products of the stored line items of transaction t
ProductsOf(t) == {transaction_items[j].product_id : j \in ItemRowsOf(t)}

\* C34: a cancel step leaves every product outside the cancelled sale alone
C34_CancelStockFrame ==
  [][\A k \in CancelProcs :
       cancel'[k] # cancel[k]
         => /\ \A p \in Products \ ProductsOf(cancel'[k].id) :
                 stock'[p] = stock[p]
            /\ price' = price]_vars

\* a sale that holds p2 only was cancelled and answered 200 after the
\* stock-return statement ran for its line item; p1 is where it started
C34_Witness ==
  \E k \in CancelProcs :
    /\ Cancelled(k)
    /\ Len(cancel[k].items) = 1
    /\ ProductsOf(cancel[k].id) = {"p2"}
    /\ transactions[cancel[k].id].status = "cancelled"
    /\ stock["p1"] = InitStock["p1"]

(***************************************************************************)
(* C35.  A step of a sale request changes the customers row of no customer *)
(* but the one its request names; a request that names no customer, and a  *)
(* request answered with a failure (400 or 500), changes no customers row  *)
(* in any of its steps and has stored no sale.                             *)
(***************************************************************************)
\* C35: a sale touches at most the customer it references
C35_LoyaltyFrame ==
  [][\A s \in SaleProcs :
       sale'[s] # sale[s]
         => /\ \A c \in Customers :
                 customers'[c] # customers[c] => c = sale'[s].req.customer_id
            /\ sale'[s].req.customer_id = NULL => customers' = customers
            /\ sale'[s].status \in {400, 500}
                 => /\ customers' = customers
                    /\ sale'[s].transaction = 0]_vars

\* a sale of c1 was stored and counted for c1 while c2 is as it started,
\* and another request of the run was answered with a failure
C35_Witness ==
  \E s, t \in SaleProcs :
    /\ Finished(s) /\ sale[s].status = 201
    /\ sale[s].req.customer_id = "c1"
    /\ customers["c1"].purchase_count = InitCustomers["c1"].purchase_count + 1
    /\ customers["c2"] = InitCustomers["c2"]
    /\ Finished(t) /\ sale[t].status \in {400, 500}

(***************************************************************************)
(* C40.  In every daily report, computed or stored, the amounts per        *)
(* payment method add up to the total:                                     *)
(* cash_sales + card_sales + check_sales = total_sales.                    *)
(***************************************************************************)
\* C40: the per-payment-method amounts add up to total_sales
C40_PaymentMethodsAddUp ==
  /\ \A r \in ReportProcs :
       Computed(r)
         => report[r].paymentMethods.cash + report[r].paymentMethods.card
              + report[r].paymentMethods.check = report[r].totalSales
  /\ \A j \in DOMAIN daily_reports :
       daily_reports[j].cash_sales + daily_reports[j].card_sales
         + daily_reports[j].check_sales = daily_reports[j].total_sales

(***************************************************************************)
(* C32.  No request blocks.  Under fair scheduling every sale request that *)
(* has arrived ends, answered 201, 400 or 500, and every cancel request    *)
(* that has arrived ends, whatever the other requests do; and a stock      *)
(* query that finds too little stock ends the request in that very step    *)
(* with "Insufficient stock", it does not wait for stock.                  *)
(***************************************************************************)
\* C32: every request ends, and a shortage is answered at once
C32_EveryRequestEnds ==
  /\ \A s \in SaleProcs :
       (sale[s].pc # "idle")
         ~> (Finished(s) /\ sale[s].status \in {201, 400, 500})
  /\ \A k \in CancelProcs :
       (cancel[k].pc # "idle")
         ~> (cancel[k].pc = "done" /\ cancel[k].status \in {200, 403, 500})
  /\ [][\A s \in SaleProcs :
          (/\ sale'[s] # sale[s]
           /\ sale[s].pc \in {"idle", "verify"}
           /\ sale'[s].req.items # << >>
           /\ LET item == sale'[s].req.items[IF sale[s].pc = "idle"
                                               THEN 1 ELSE sale[s].i]
              IN stock[item.product_id] < item.quantity)
            => (Finished(s)' /\ sale'[s].error = "Insufficient stock")]_vars

\* two sale requests ran together for the last unit of p1: one was stored
\* and answered 201, the other was refused for lack of stock
C32_Witness ==
  /\ Finished("s1") /\ Finished("s2")
  /\ Requested(sale["s1"].req.items, "p1") = 1
  /\ Requested(sale["s2"].req.items, "p1") = 1
  /\ \E s, t \in SaleProcs :
       /\ sale[s].status = 201
       /\ sale[t].status = 400 /\ sale[t].error = "Insufficient stock"

(***************************************************************************)
(* C38.  For a cart of the cashier interface (one entry per product, every *)
(* quantity at least 1) and the customer record the server read, the four  *)
(* amounts the interface displays, calculateTotals() shown with two        *)
(* decimals, are the subtotal, discount, tax and total the server stores   *)
(* for the sale created from that cart.                                    *)
(***************************************************************************)
\* `items` can be the cart of the screen
ScreenCart(items) ==
  /\ \A i \in DOMAIN items : items[i].quantity >= 1
  /\ \A i, j \in DOMAIN items :
       items[i].product_id = items[j].product_id => i = j

\* C38: displayed totals = stored totals
C38_DisplayedTotalsAreStored ==
  \A s \in SaleProcs :
    (Persisted(s) /\ ScreenCart(sale[s].req.items))
      => Displayed(calculateTotals(sale[s].req.items, sale[s].customerData))
           = StoredAmounts(sale[s].transaction)

(***************************************************************************)
(* C37.  After any sequence of addToCart, removeFromCart and               *)
(* updateQuantity calls the cart holds at most one entry per product_id    *)
(* and every entry has quantity >= 1; updateQuantity with a quantity <= 0  *)
(* removes the entry of the product, and addToCart on a product that is in *)
(* the cart raises its quantity by 1 and adds no entry.                    *)
(***************************************************************************)
\* positions of the entries of product p in the cart `items`
EntriesOf(items, p) == {i \in DOMAIN items : items[i].product_id = p}

CartWellFormed(items) ==
  /\ \A i, j \in DOMAIN items :
       items[i].product_id = items[j].product_id => i = j
  /\ \A i \in DOMAIN items : items[i].quantity >= 1

\* C37: cart invariant and the effect of the two calls
C37_CartWellFormed ==
  [][/\ CartWellFormed(cart')
     /\ (lastCall'.op = "updateQuantity" /\ lastCall'.quantity <= 0)
          => EntriesOf(cart', lastCall'.product_id) = {}
     /\ (lastCall'.op = "addToCart"
           /\ EntriesOf(cart, lastCall'.product_id) # {})
          => /\ Len(cart') = Len(cart)
             /\ \A i \in DOMAIN cart :
                  cart'[i] = IF cart[i].product_id = lastCall'.product_id
                               THEN [cart[i] EXCEPT !.quantity = @ + 1]
                               ELSE cart[i]]_vars

\* p1 was added twice and p2 once, then updateQuantity(p2, 0) was called:
\* the cart holds the one entry of p1 with quantity 2
C37_Witness ==
  /\ lastCall = [op |-> "updateQuantity", product_id |-> "p2", quantity |-> 0]
  /\ Len(cart) = 1
  /\ cart[1].product_id = "p1" /\ cart[1].quantity = 2

(***************************************************************************)
(* C39.  Only a request that carries an admin's credentials gives an       *)
(* account the admin or store_manager role: every users row that holds an  *)
(* elevated role it did not start with got that role from a request of an  *)
(* admin.                                                                  *)
(***************************************************************************)
Elevated(role) == role \in {"admin", "store_manager"}

\* C39: elevated roles come from an admin's request only
C39_OnlyAdminElevates ==
  \A i \in DOMAIN users :
    (Elevated(users[i].role) /\ grantedBy[i] # "seed") => grantedBy[i] = "admin"

=============================================================================
